---- MODULE Spec2Model ----
(***************************************************************************)
(* Model of scripts/commit.py: a fixed sequence of cargo commands, then,   *)
(* when a commit message is given, git add / status, a confirmation        *)
(* prompt, git commit and git push.  Every external command goes through   *)
(* run(), which exits the script with the child's return code when that    *)
(* code is non-zero.                                                       *)
(*                                                                         *)
(* Strings that the script inspects character by character (the message    *)
(* argument, the answer typed at the prompt) are sequences of one-char     *)
(* strings.  The four suit symbols U+2666, U+2663, U+2665, U+2660 are      *)
(* written "DIAMOND", "CLUB", "HEART", "SPADE": each stands for one        *)
(* character.                                                              *)
(***************************************************************************)
EXTENDS Integers, Sequences, FiniteSets, TLC

----------------------------------------------------------------------------
(* Bounds of the model. *)

\* longest message argument tried
MaxMessageLen == 2
\* longest line typed at the prompt
MaxAnswerLen == 2
\* exit codes 0..MaxCode are tried for every child
MaxCode == 2
\* signals 1..MaxSignal are tried (subprocess reports signal N as -N)
MaxSignal == 9

\* width of a POSIX process exit status
ExitStatusBits == 8

----------------------------------------------------------------------------
(* Input domains. *)

MessageChars == {"F", " ", "DIAMOND"}
AnswerChars  == {"y", "Y", "n", " "}

RECURSIVE SeqsUpTo(_, _)
SeqsUpTo(S, n) ==
    IF n = 0 THEN {<<>>}
    ELSE LET shorter == SeqsUpTo(S, n - 1)
         IN  shorter \cup {Append(s, c) : s \in {t \in shorter : Len(t) = n - 1}, c \in S}

\* args.message after parse_args(): None when the positional is absent
\* (nargs='?', default=None), otherwise the string given.
ArgsMessages ==
    {[supplied |-> FALSE, text |-> <<>>]}
    \cup {[supplied |-> TRUE, text |-> t] : t \in SeqsUpTo(MessageChars, MaxMessageLen)}

\* What input() can produce: a line (without its newline), or EOFError.
StdinInputs ==
    {[eof |-> TRUE, line |-> <<>>]}
    \cup {[eof |-> FALSE, line |-> l] : l \in SeqsUpTo(AnswerChars, MaxAnswerLen)}

\* result.returncode: 0..255 for a child that exited, -N for one killed by signal N
ReturnCodes == (0 - MaxSignal) .. MaxCode

----------------------------------------------------------------------------
(* The commands, in program order. *)

Steps == <<"check", "clippy", "fmt", "test", "doc", "add", "status", "commit", "push">>

StepSet == {Steps[i] : i \in 1..Len(Steps)}

\* the argument vector passed to run() at each call site
run_args(step, msg) ==
    CASE step = "check"  -> <<"cargo", "check">>
      [] step = "clippy" -> <<"cargo", "clippy">>
      [] step = "fmt"    -> <<"cargo", "fmt">>
      [] step = "test"   -> <<"cargo", "test">>
      [] step = "doc"    -> <<"cargo", "doc">>
      [] step = "add"    -> <<"git", "add", "-A">>
      [] step = "status" -> <<"git", "status">>
      [] step = "commit" -> <<"git", "commit", "-m", msg>>
      [] step = "push"   -> <<"git", "push">>

\* variant: git status left out of the sequence
next_statement_no_status(step) ==
    CASE step = "check"  -> "clippy"
      [] step = "clippy" -> "fmt"
      [] step = "fmt"    -> "test"
      [] step = "test"   -> "doc"
      [] step = "doc"    -> "if_message"
      [] step = "add"    -> "message"
      [] step = "status" -> "message"
      [] step = "commit" -> "push"
      [] step = "push"   -> "done"
\* the statement reached when the run() call at `step` returns normally
next_statement(step) ==
    CASE step = "check"  -> "clippy"
      [] step = "clippy" -> "fmt"
      [] step = "fmt"    -> "test"
      [] step = "test"   -> "doc"
      [] step = "doc"    -> "if_message"
      [] step = "add"    -> "status"
      [] step = "status" -> "message"
      [] step = "commit" -> "push"
      [] step = "push"   -> "done"

----------------------------------------------------------------------------
(* Pure helpers. *)

\* status seen by the parent of the script for exit(n)
ExitStatus(n) == n % (2 ^ ExitStatusBits)

\* variant: `if result.returncode > 0:` (a child killed by a signal passes)
returncode_positive(returncode) == returncode > 0
\* `if result.returncode:` -- truthiness of an int
returncode_truthy(returncode) == returncode # 0

\* variant: the failure path prints the diagnostic and never exits
run_no_exit(step, returncode) ==
    IF returncode_truthy(returncode) THEN "after_error" ELSE next_statement(step)
\* where control goes when subprocess.run returns inside run()
run_continue(step, returncode) ==
    IF returncode_truthy(returncode) THEN "done" ELSE next_statement(step)

\* variant: the diagnostic shows the 8-bit exit status, not the returncode
error_line_status(args, returncode) ==
    <<"Error! Command", args[1], "returned non-zero exit code", ExitStatus(returncode)>>
\* print("Error! Command", args[0], "returned non-zero exit code", result.returncode)
error_line(args, returncode) ==
    <<"Error! Command", args[1], "returned non-zero exit code", returncode>>

\* print(">", " ".join(args)): the vector stands for the joined text
echo_line(args) == <<">", args>>

\* variant: the commit sub-flow is entered unconditionally
message_always(m) == TRUE
\* `if args.message:` -- None and the empty string are both falsy
message_truthy(m) == m.supplied /\ Len(m.text) > 0

Symbols == {"DIAMOND", "CLUB", "HEART", "SPADE"}

\* args.message + " " + random.choice([...])
final_message(text, symbol) == text \o <<" ">> \o <<symbol>>

\* print(f"Message: {message}")
message_line(m) == <<"Message:", m>>

\* the whitespace str.strip() removes, within AnswerChars
IsSpace(c) == c \in {" "}

RECURSIVE lstrip(_)
lstrip(s) == IF s # <<>> /\ IsSpace(Head(s)) THEN lstrip(Tail(s)) ELSE s

RECURSIVE rstrip(_)
rstrip(s) ==
    IF s # <<>> /\ IsSpace(s[Len(s)]) THEN rstrip(SubSeq(s, 1, Len(s) - 1)) ELSE s

\* str.strip()
strip(s) == rstrip(lstrip(s))

lower_char(c) == IF c = "Y" THEN "y" ELSE IF c = "N" THEN "n" ELSE c

\* str.lower()
lower(s) == [i \in 1..Len(s) |-> lower_char(s[i])]

\* variant: .startswith("y") instead of == "y"
is_yes_prefix(line) == LET a == lower(strip(line)) IN a # <<>> /\ Head(a) = "y"
\* input(...).strip().lower() == "y"
is_yes(line) == lower(strip(line)) = <<"y">>

prompt_line == <<"Commit & Push (y/n)? ">>

\* where input() writes its prompt: with stdin and stdout both terminals the
\* interpreter reads through its line reader, which prompts on stderr;
\* otherwise the prompt is written to sys.stdout
prompt_stream(tty) == IF tty THEN "stderr" ELSE "stdout"

----------------------------------------------------------------------------
(* Writing text to sys.stdout: print() encodes it with the stream's        *)
(* encoding and error handler, which the script leaves as the environment  *)
(* set them.                                                               *)

\* the characters of the model outside ASCII
is_ascii(c) == c \notin {"DIAMOND", "CLUB", "HEART", "SPADE"}

\* the code point, four hex digits
codepoint_hex(c) ==
    CASE c = "DIAMOND" -> <<"2", "6", "6", "6">>
      [] c = "CLUB" -> <<"2", "6", "6", "3">>
      [] c = "HEART" -> <<"2", "6", "6", "5">>
      [] c = "SPADE" -> <<"2", "6", "6", "0">>

\* the code point in decimal
codepoint_decimal(c) ==
    CASE c = "DIAMOND" -> <<"9", "8", "3", "0">>
      [] c = "CLUB" -> <<"9", "8", "2", "7">>
      [] c = "HEART" -> <<"9", "8", "2", "9">>
      [] c = "SPADE" -> <<"9", "8", "2", "4">>

\* the character name
unicode_name(c) ==
    CASE c = "DIAMOND" -> <<"B", "L", "A", "C", "K", " ", "D", "I", "A", "M", "O", "N", "D", " ", "S", "U", "I", "T">>
      [] c = "CLUB" -> <<"B", "L", "A", "C", "K", " ", "C", "L", "U", "B", " ", "S", "U", "I", "T">>
      [] c = "HEART" -> <<"B", "L", "A", "C", "K", " ", "H", "E", "A", "R", "T", " ", "S", "U", "I", "T">>
      [] c = "SPADE" -> <<"B", "L", "A", "C", "K", " ", "S", "P", "A", "D", "E", " ", "S", "U", "I", "T">>

\* error handlers of a text stream; "strict" also stands for surrogateescape
\* and surrogatepass, which raise for these characters as strict does
ErrorHandlers ==
    {"strict", "replace", "ignore", "backslashreplace", "xmlcharrefreplace",
     "namereplace"}

\* the suit symbols a text encoding has: all four (UTF-8, gb18030), all but
\* the diamond (euc_kr, cp949, johab, iso2022_kr), or none (ascii, latin-1,
\* cp1252); no encoding of the interpreter has another selection
SymbolRepertoires ==
    {{"DIAMOND", "CLUB", "HEART", "SPADE"}, {"CLUB", "HEART", "SPADE"}, {}}

\* sys.stdout as the environment configures it: the symbols its encoding has
\* and its error handler (which never acts when all four are there)
StdoutCodecs ==
    {[has |-> {"DIAMOND", "CLUB", "HEART", "SPADE"}, errors |-> "strict"]}
    \cup {[has |-> h, errors |-> e] :
             h \in SymbolRepertoires \ {{"DIAMOND", "CLUB", "HEART", "SPADE"}},
             e \in ErrorHandlers}

\* the encoding can write the character as itself
encodable(c, codec) == is_ascii(c) \/ c \in codec.has

\* what the error handler writes for a character the encoding lacks
encode_error(c, errors) ==
    CASE errors = "replace"           -> <<"?">>
      [] errors = "ignore"            -> <<>>
      [] errors = "backslashreplace"  -> <<"\\", "u">> \o codepoint_hex(c)
      [] errors = "xmlcharrefreplace" -> <<"&", "#">> \o codepoint_decimal(c) \o <<";">>
      [] errors = "namereplace"       -> <<"\\", "N", "{">> \o unicode_name(c) \o <<"}">>

\* the write raises UnicodeEncodeError and nothing is written
encode_raises(text, codec) ==
    /\ codec.errors = "strict"
    /\ \E i \in 1..Len(text) : ~encodable(text[i], codec)

\* the characters that reach the stream when the write does not raise
RECURSIVE encode(_, _)
encode(text, codec) ==
    IF text = <<>> THEN <<>>
    ELSE (IF encodable(Head(text), codec)
          THEN <<Head(text)>>
          ELSE encode_error(Head(text), codec.errors))
         \o encode(Tail(text), codec)

\* the argument vector holds a character outside ASCII: only git commit
\* does, its message ending in a suit symbol
has_non_ascii(args) == Len(args) = 4

\* subprocess.run may fail to encode an argument for exec: the file-system
\* encoding lacks the suit symbol appended to the message.  That encoding
\* also decoded argv, and every encoding that lacks a suit symbol lacks the
\* diamond, so the supplied part of the message is then plain ASCII
exec_encoding_may_fail(args) ==
    /\ has_non_ascii(args)
    /\ \A i \in 1..(Len(args[4]) - 1) : is_ascii(args[4][i])

\* what subprocess.run(args) does before there is a child: the executable is
\* started, or the call raises: the executable is missing, may not be
\* executed, cannot be run by the kernel or the fork fails (any other
\* OSError), or an argument cannot be encoded for exec
SpawnOutcomes(args) ==
    {"started", "FileNotFoundError", "PermissionError", "OSError"}
    \cup (IF exec_encoding_may_fail(args) THEN {"UnicodeEncodeError"} ELSE {})

\* the interpreter's report of an uncaught exception
traceback_line(exception) == <<"Traceback", exception>>

\* exit status of the interpreter after an uncaught exception
UncaughtExceptionStatus == 1

\* one piece of output of the script, with the stream it was written to
Written(stream, line) == [stream |-> stream, line |-> line]
notice_line == <<"No commit message provided.">>

----------------------------------------------------------------------------
(* State. *)

VARIABLES
    args_message,   \* args.message
    isatty,         \* stdin and stdout of the script are both terminals
    stdout_codec,   \* encoding and error handler of sys.stdout
    pc,             \* the statement the script is at; "done" once it has exited
    child,          \* <<>> or the argument vector of the running child
    message,        \* the local `message` (<<>> while unassigned)
    invoked,        \* argument vectors passed to subprocess.run, in order
    returned,       \* return codes of the children that ran, in order
    output,         \* what the script and the interpreter wrote, in order,
                    \* each piece with its stream ("stdout" or "stderr")
    stdin_read,     \* what input() produced (at most one element)
    exit_code       \* exit status of the script, meaningful once pc = "done"

vars == <<args_message, isatty, stdout_codec, pc, child, message, invoked, returned,
          output, stdin_read, exit_code>>

Init ==
    /\ args_message \in ArgsMessages
    /\ isatty \in BOOLEAN
    /\ stdout_codec \in StdoutCodecs
    /\ pc = "check"
    /\ child = <<>>
    /\ message = <<>>
    /\ invoked = <<>>
    /\ returned = <<>>
    /\ output = <<>>
    /\ stdin_read = <<>>
    /\ exit_code = 0

----------------------------------------------------------------------------
(* Actions. *)

\* run(), up to the point where subprocess.run blocks on the child, or
\* raises because the child could not be started
subprocess_run(step) ==
    /\ pc = step
    /\ child = <<>>
    /\ LET args == run_args(step, message)
           shown == IF has_non_ascii(args)
                    THEN [args EXCEPT ![4] = encode(args[4], stdout_codec)]
                    ELSE args
       IN  /\ invoked' = Append(invoked, args)
           /\ \E outcome \in SpawnOutcomes(args) :
                IF outcome = "started"
                THEN /\ output' = Append(output, Written("stdout", echo_line(shown)))
                     /\ child' = args
                     /\ UNCHANGED <<pc, exit_code>>
                ELSE /\ output' = output \o <<Written("stdout", echo_line(shown)),
                                             Written("stderr", traceback_line(outcome))>>
                     /\ child' = <<>>
                     /\ pc' = "done"
                     /\ exit_code' = UncaughtExceptionStatus
    /\ UNCHANGED <<args_message, isatty, stdout_codec, message, returned, stdin_read>>

\* run(), from the child's return: the returncode test, the diagnostic, exit()
run_return(step) ==
    /\ pc = step
    /\ child # <<>>
    /\ \E returncode \in ReturnCodes :
         /\ returned' = Append(returned, returncode)
         /\ child' = <<>>
         /\ pc' = run_continue(step, returncode)
         /\ IF returncode_truthy(returncode)
            THEN /\ output' = Append(output, Written("stdout", error_line(child, returncode)))
                 /\ exit_code' = ExitStatus(returncode)
            ELSE /\ output' = output
                 /\ exit_code' = 0
    /\ UNCHANGED <<args_message, isatty, stdout_codec, message, invoked, stdin_read>>

\* `if args.message:` ... `else: print("No commit message provided.")`
if_message ==
    /\ pc = "if_message"
    /\ IF message_truthy(args_message)
       THEN /\ pc' = "add"
            /\ UNCHANGED <<output, exit_code>>
       ELSE /\ output' = Append(output, Written("stdout", notice_line))
            /\ pc' = "done"
            /\ exit_code' = 0
    /\ UNCHANGED <<args_message, isatty, stdout_codec, child, message, invoked, returned, stdin_read>>

\* message = args.message + " " + random.choice(...); print(f"Message: {message}")
\* print() raises UnicodeEncodeError, before anything is written, when the
\* encoding of stdout lacks a character of the message and its error handler
\* is strict; with another handler the line is written with the handler's
\* substitutes for the characters the encoding lacks
build_message ==
    /\ pc = "message"
    /\ \E symbol \in Symbols :
         message' = final_message(args_message.text, symbol)
    /\ IF ~encode_raises(message', stdout_codec)
       THEN /\ output' = Append(output, Written("stdout",
                                    message_line(encode(message', stdout_codec))))
            /\ pc' = "input"
            /\ exit_code' = exit_code
       ELSE /\ output' = Append(output, Written("stderr", traceback_line("UnicodeEncodeError")))
            /\ pc' = "done"
            /\ exit_code' = UncaughtExceptionStatus
    /\ UNCHANGED <<args_message, isatty, stdout_codec, child, invoked, returned, stdin_read>>

\* input("Commit & Push (y/n)? ") writes the prompt and blocks
input_prompt ==
    /\ pc = "input"
    /\ output' = Append(output, Written(prompt_stream(isatty), prompt_line))
    /\ pc' = "input_wait"
    /\ UNCHANGED <<args_message, isatty, stdout_codec, child, message, invoked, returned,
                   stdin_read, exit_code>>

\* input() returns a line or raises EOFError; the comparison with "y"
input_return ==
    /\ pc = "input_wait"
    /\ \E inp \in StdinInputs :
         /\ stdin_read' = Append(stdin_read, inp)
         /\ IF inp.eof
            THEN /\ output' = Append(output, Written("stderr", traceback_line("EOFError")))
                 /\ pc' = "done"
                 /\ exit_code' = UncaughtExceptionStatus
            ELSE /\ output' = output
                 /\ pc' = IF is_yes(inp.line) THEN "commit" ELSE "done"
                 /\ exit_code' = 0
    /\ UNCHANGED <<args_message, isatty, stdout_codec, child, message, invoked, returned>>

Next ==
    \/ \E step \in StepSet : subprocess_run(step)
    \/ \E step \in StepSet : run_return(step)
    \/ if_message
    \/ build_message
    \/ input_prompt
    \/ input_return

Spec == Init /\ [][Next]_vars

\* every child eventually returns, the operator eventually answers, and the
\* interpreter keeps executing statements
LiveSpec == Spec /\ WF_vars(Next)

----------------------------------------------------------------------------
(* Vocabulary of the properties, written out independently of the model's  *)
(* operators.                                                              *)

CargoCheck  == <<"cargo", "check">>
CargoClippy == <<"cargo", "clippy">>
CargoFmt    == <<"cargo", "fmt">>
CargoTest   == <<"cargo", "test">>
CargoDoc    == <<"cargo", "doc">>
GitAdd      == <<"git", "add", "-A">>
GitStatus   == <<"git", "status">>
GitPush     == <<"git", "push">>

PreCommitCommands == <<CargoCheck, CargoClippy, CargoFmt, CargoTest, CargoDoc>>

SuitSymbols == {"DIAMOND", "CLUB", "HEART", "SPADE"}

IsPrefixOf(s, t) == Len(s) <= Len(t) /\ \A i \in 1..Len(s) : s[i] = t[i]

IsGitCommit(args) == Len(args) = 4 /\ args[1] = "git" /\ args[2] = "commit"
IsGitPush(args)   == Len(args) = 2 /\ args[1] = "git" /\ args[2] = "push"
IsGitCommand(args) == args[1] = "git"

Failed == {i \in 1..Len(returned) : returned[i] # 0}
\* every command passed to subprocess.run ran and gave a return code
EveryCommandReturned == Len(returned) = Len(invoked)
AllReturnedZero ==
    EveryCommandReturned /\ \A i \in 1..Len(returned) : returned[i] = 0
PreCommitSucceeded == Len(returned) >= 5 /\ \A i \in 1..5 : returned[i] = 0

\* positions in the output; the prompt counts as shown on either stream
OnStdout(j)  == output[j].stream = "stdout"
ErrorLines   == {j \in 1..Len(output) : OnStdout(j) /\ output[j].line[1] = "Error! Command"}
MessageLines == {j \in 1..Len(output) : OnStdout(j) /\ output[j].line[1] = "Message:"}
PromptLines  == {j \in 1..Len(output) : output[j].line[1] = "Commit & Push (y/n)? "}
NoticeLines  == {j \in 1..Len(output) :
                    OnStdout(j) /\ output[j].line[1] = "No commit message provided."}
Tracebacks   == {j \in 1..Len(output) : output[j].line[1] = "Traceback"}
EchoLines    == {j \in 1..Len(output) : OnStdout(j) /\ output[j].line[1] = ">"}
EchoLinesOf(args) == {j \in EchoLines : output[j].line[2] = args}

CommitInvoked == \E i \in 1..Len(invoked) : IsGitCommit(invoked[i])
PushInvoked   == \E i \in 1..Len(invoked) : IsGitPush(invoked[i])

Answered == Len(stdin_read) = 1
AnsweredLine == Answered /\ ~stdin_read[1].eof

\* the line is "y" or "Y"
CaseInsensitiveY(line) == line \in {<<"y">>, <<"Y">>}

\* the line is "y" or "Y" surrounded by any number of spaces
StrippedCaseInsensitiveY(line) ==
    LET solid == {i \in 1..Len(line) : line[i] # " "}
    IN  Cardinality(solid) = 1 /\ \A i \in solid : line[i] \in {"y", "Y"}

\* a statement of the script itself (not the child, not the operator) can run
ScriptStep ==
    \/ \E step \in StepSet : subprocess_run(step)
    \/ if_message
    \/ build_message
    \/ input_prompt

----------------------------------------------------------------------------
\* C1: fail-fast.  Once a command has returned non-zero it is the last
\* command ever invoked (no later command, no re-invocation), the script has
\* exited, no step is enabled any more, and the diagnostic is the last line
\* printed (so the prompt is not shown afterwards).
C1_FailFast ==
    \A i \in Failed :
        /\ Len(invoked) = i
        /\ Len(returned) = i
        /\ child = <<>>
        /\ pc = "done"
        /\ ~ENABLED Next
        /\ output # <<>>
        /\ Len(output) \in ErrorLines

\* git commit failed after a confirmed prompt: git push was never invoked
C1_Witness ==
    /\ pc = "done"
    /\ Len(returned) = 8
    /\ returned[8] # 0
    /\ IsGitCommit(invoked[8])

----------------------------------------------------------------------------
\* C2: the exit code is 0 when every invoked command returned 0, otherwise
\* exactly the return code of the first command that failed.
C2_ExitCode ==
    (pc = "done" /\ EveryCommandReturned) =>
        IF AllReturnedZero
        THEN exit_code = 0
        ELSE \E i \in Failed :
                /\ \A k \in Failed : i <= k
                /\ exit_code = returned[i]

----------------------------------------------------------------------------
\* C3 as stated: a message given and an answer other than "y"/"Y" means git
\* commit and git push are never invoked and the exit code is 0.
C3_DeclineOriginal ==
    (AnsweredLine /\ ~CaseInsensitiveY(stdin_read[1].line)) =>
        /\ ~CommitInvoked
        /\ ~PushInvoked
        /\ pc = "done"
        /\ exit_code = 0

\* C3 amended: when the prompt reads a line that, stripped of surrounding
\* whitespace, is not "y"/"Y", git commit and git push are never invoked and
\* the script exits 0; git commit is invoked only when the stripped answer
\* was "y"/"Y".
C3_Decline ==
    /\ (AnsweredLine /\ ~StrippedCaseInsensitiveY(stdin_read[1].line)) =>
          /\ ~CommitInvoked
          /\ ~PushInvoked
          /\ pc = "done"
          /\ exit_code = 0
    /\ CommitInvoked =>
          (AnsweredLine /\ StrippedCaseInsensitiveY(stdin_read[1].line))
    /\ PushInvoked => CommitInvoked

\* the operator typed "yn": declined, exit 0
C3_Witness ==
    /\ args_message.supplied
    /\ AnsweredLine
    /\ stdin_read[1].line = <<"y", "n">>
    /\ pc = "done"

----------------------------------------------------------------------------
\* C4: with no message argument only the five pre-commit commands are ever
\* invoked, in order, no git command runs, the prompt is never shown, and
\* when all five returned 0 the notice is the last line printed and the exit
\* code is 0.
C4_NoMessage ==
    ~args_message.supplied =>
        /\ IsPrefixOf(invoked, PreCommitCommands)
        /\ \A i \in 1..Len(invoked) : ~IsGitCommand(invoked[i])
        /\ \A j \in EchoLines : output[j].line[2][1] = "cargo"
        /\ PromptLines = {}
        /\ MessageLines = {}
        /\ stdin_read = <<>>
        /\ (PreCommitSucceeded /\ pc = "done") =>
              /\ invoked = PreCommitCommands
              /\ output # <<>>
              /\ Len(output) \in NoticeLines
              /\ exit_code = 0
        /\ NoticeLines # {} => (PreCommitSucceeded /\ pc = "done")

C4_Witness ==
    /\ ~args_message.supplied
    /\ pc = "done"
    /\ PreCommitSucceeded
    /\ NoticeLines # {}

----------------------------------------------------------------------------
\* C5: after a run in which every command returned 0 and the operator
\* answered "y", the commands invoked are exactly the nine, once each and in
\* order, git commit carrying the message followed by a space and a suit
\* symbol; the prompt was printed after the git status line and before the
\* git commit line; the exit code is 0.
C5_FullSuccess ==
    (/\ pc = "done"
     /\ args_message.supplied
     /\ AllReturnedZero
     /\ AnsweredLine
     /\ stdin_read[1].line = <<"y">>) =>
        /\ \E symbol \in SuitSymbols :
              invoked = <<CargoCheck, CargoClippy, CargoFmt, CargoTest, CargoDoc,
                          GitAdd, GitStatus,
                          <<"git", "commit", "-m",
                            args_message.text \o <<" ", symbol>> >>,
                          GitPush>>
        /\ Len(returned) = 9
        /\ \E p \in PromptLines :
              /\ PromptLines = {p}
              /\ \A j \in EchoLinesOf(GitStatus) : j < p
              /\ EchoLinesOf(GitStatus) # {}
              /\ \A j \in EchoLines : IsGitCommit(output[j].line[2]) => p < j
        /\ exit_code = 0

\* on a terminal, so the prompt went to stderr
C5_Witness ==
    /\ pc = "done"
    /\ isatty
    /\ \E p \in PromptLines : output[p].stream = "stderr"
    /\ args_message = [supplied |-> TRUE, text |-> <<"F">>]
    /\ AllReturnedZero
    /\ AnsweredLine
    /\ stdin_read[1].line = <<"y">>
    /\ Len(invoked) = 9

----------------------------------------------------------------------------
\* C6: whenever a message argument was supplied (the empty string included)
\* and the run ended with every command returning 0, git add -A and git
\* status were invoked and the prompt was reached; the notice is printed
\* only when no message argument was supplied.
C6_SubflowOnSupplied ==
    /\ (/\ args_message.supplied
        /\ PreCommitSucceeded
        /\ AllReturnedZero
        /\ pc = "done"
        /\ Tracebacks = {}) =>
          /\ Len(invoked) >= 7
          /\ invoked[6] = GitAdd
          /\ invoked[7] = GitStatus
          /\ PromptLines # {}
    /\ NoticeLines # {} => ~args_message.supplied

----------------------------------------------------------------------------
\* C7: every displayed final message is the supplied message, one space, and
\* one of the four suit symbols, and it is displayed only after git add and
\* git status have both returned 0.
C7_DisplayedMessage ==
    \A j \in MessageLines :
        LET shown == output[j].line[2]
            n     == Len(args_message.text)
        IN  /\ Len(shown) = n + 2
            /\ SubSeq(shown, 1, n) = args_message.text
            /\ shown[n + 1] = " "
            /\ shown[n + 2] \in SuitSymbols
            /\ Len(returned) >= 7
            /\ invoked[6] = GitAdd /\ returned[6] = 0
            /\ invoked[7] = GitStatus /\ returned[7] = 0

----------------------------------------------------------------------------
\* C8: there is one diagnostic per failed command and none otherwise; it
\* is printed by the time the script has exited, and it carries the first
\* token of the failed command and the return code the child reported.
C8_Diagnostic ==
    /\ Cardinality(ErrorLines) = Cardinality(Failed)
    /\ Cardinality(ErrorLines) <= 1
    /\ \A i \in Failed :
          /\ pc = "done"
          /\ output[Len(output)] =
                [stream |-> "stdout",
                 line   |-> <<"Error! Command", invoked[i][1],
                              "returned non-zero exit code", returned[i]>>]
    /\ (Len(returned) = 2 /\ returned[2] = 1) =>
          output[Len(output)] =
                [stream |-> "stdout",
                 line   |-> <<"Error! Command", "cargo",
                              "returned non-zero exit code", 1>>]

\* cargo clippy was killed by a signal
C8_Witness ==
    /\ Len(returned) = 2
    /\ invoked[2] = CargoClippy
    /\ returned[2] < 0
    /\ ErrorLines # {}

----------------------------------------------------------------------------
\* C9: the message passed to git commit -m is the one message that was
\* displayed, and it was displayed before the prompt.
C9_CommitsDisplayedMessage ==
    \A i \in 1..Len(invoked) :
        IsGitCommit(invoked[i]) =>
            /\ Cardinality(MessageLines) = 1
            /\ \A j \in MessageLines :
                  /\ output[j].line[2] = invoked[i][4]
                  /\ \A p \in PromptLines : j < p
            /\ invoked[i][4] = message

----------------------------------------------------------------------------
\* a command starts only after the previous one has returned, and the only
\* states short of exit in which no statement of the script can run are a
\* running child and the pending prompt
Sequential ==
    /\ Len(invoked) - Len(returned) \in {0, 1}
    /\ child # <<>> => (Len(invoked) = Len(returned) + 1 /\ child = invoked[Len(invoked)])
    /\ (child = <<>> /\ Len(invoked) = Len(returned) + 1) =>
          (pc = "done" /\ output[Len(output)].stream = "stderr")
    /\ (pc # "done" /\ ~ENABLED ScriptStep) => (child # <<>> \/ pc = "input_wait")
    /\ (child # <<>> \/ pc = "input_wait") => ~ENABLED ScriptStep

\* C10: when every child returns and the operator answers, every run
\* terminates; commands run one at a time and the script waits only on a
\* child or on the prompt.
C10_Termination == []Sequential /\ <>(pc = "done")

\* a run that waited on nine children and on the prompt, and has exited
C10_Witness ==
    /\ pc = "done"
    /\ Len(returned) = 9
    /\ Answered

====
